---- MODULE Spec2Model ----
(***************************************************************************)
(* Model of src/App.py: the Dash page with seven sliders and the callback  *)
(* update_figure that recomputes the seepage figure on every slider event. *)
(*                                                                         *)
(* Numbers.  Slider values are Python numbers; the model carries them as   *)
(* exact rationals <<n, d>> in lowest terms (d > 0).  Every slider value   *)
(* is a multiple of its step (0.5 or 1, or 1e-6 for K, which is never used *)
(* in arithmetic).  On slider positions the values at X = 0 and X = W, the *)
(* rectangle corners and the flow-line positions are computed without      *)
(* rounding in IEEE doubles too; at inner grid samples doubles round, and  *)
(* rounding is monotone, so orderings carry over.                          *)
(***************************************************************************)
EXTENDS Integers, Sequences, FiniteSets

VARIABLES
    depth_slider,                    \* value of 'depth-slider' (H)
    width_slider,                    \* value of 'width-slider' (W)
    k_slider,                        \* value of 'k-slider' (K)
    head_left_slider,                \* value of 'head-left-slider'
    head_right_slider,               \* value of 'head-right-slider'
    excavation_depth_right_slider,   \* value of 'excavation-depth-right-slider'
    excavation_depth_left_slider,    \* value of 'excavation-depth-left-slider'
    seepage_graph,                   \* figure of 'seepage-graph'
    earlier                          \* history: one earlier render, or NoRender

sliders == <<depth_slider, width_slider, k_slider, head_left_slider,
             head_right_slider, excavation_depth_right_slider,
             excavation_depth_left_slider>>

vars == <<depth_slider, width_slider, k_slider, head_left_slider,
          head_right_slider, excavation_depth_right_slider,
          excavation_depth_left_slider, seepage_graph, earlier>>

(* ------------------------------------------------------------------ *)
(* Arithmetic on numbers                                               *)
(* ------------------------------------------------------------------ *)

Abs(n) == IF n < 0 THEN -n ELSE n

RECURSIVE GCD(_, _)
GCD(a, b) == IF b = 0 THEN a ELSE GCD(b, a % b)

\* The number n/d (d # 0) in lowest terms with a positive denominator.
Q(n, d) ==
    LET g == GCD(Abs(n), Abs(d))
        s == IF d < 0 THEN -1 ELSE 1
    IN  <<(s * n) \div g, (s * d) \div g>>

Zero == Q(0, 1)

\* Sums and comparisons go over the least common denominator, products and
\* quotients cancel crosswise first, so that the integers stay small.
RAdd(a, b) ==
    LET g == GCD(a[2], b[2])
    IN  Q(a[1] * (b[2] \div g) + b[1] * (a[2] \div g), (a[2] \div g) * b[2])
RSub(a, b) == RAdd(a, <<-b[1], b[2]>>)
RMul(a, b) ==
    LET p == Q(a[1], b[2])
        q == Q(b[1], a[2])
    IN  <<p[1] * q[1], p[2] * q[2]>>
\* Python raises ZeroDivisionError on b = 0; no slider can deliver W = 0.
RDiv(a, b) == RMul(a, Q(b[2], b[1]))
RLe(a, b) ==
    LET g == GCD(a[2], b[2])
    IN  a[1] * (b[2] \div g) <= b[1] * (a[2] \div g)
RLt(a, b) == RLe(a, b) /\ a # b
IsWhole(a) == a[2] = 1

(* ------------------------------------------------------------------ *)
(* app.layout: the seven sliders                                       *)
(* ------------------------------------------------------------------ *)

depth_slider_props ==
    [min |-> Q(5, 1), max |-> Q(20, 1), step |-> Q(1, 2), value |-> Q(10, 1)]
width_slider_props ==
    [min |-> Q(10, 1), max |-> Q(50, 1), step |-> Q(1, 1), value |-> Q(20, 1)]
k_slider_props ==
    [min |-> Q(1, 1000000), max |-> Q(1, 10000), step |-> Q(1, 1000000),
     value |-> Q(1, 100000)]
head_left_slider_props ==
    [min |-> Q(5, 1), max |-> Q(20, 1), step |-> Q(1, 2), value |-> Q(8, 1)]
head_right_slider_props ==
    [min |-> Q(0, 1), max |-> Q(10, 1), step |-> Q(1, 2), value |-> Q(5, 1)]
excavation_depth_right_slider_props ==
    [min |-> Q(1, 1), max |-> Q(10, 1), step |-> Q(1, 2), value |-> Q(5, 1)]
excavation_depth_left_slider_props ==
    [min |-> Q(0, 1), max |-> Q(5, 1), step |-> Q(1, 2), value |-> Q(0, 1)]

\* v is a position the slider s can deliver: in range and on a step.
OnSlider(s, v) ==
    /\ RLe(s.min, v)
    /\ RLe(v, s.max)
    /\ IsWhole(RDiv(RSub(v, s.min), s.step))

\* The slider positions the model tries (each a subset of the slider's
\* positions that contains its default value).
DepthInputs ==
    {v \in {Q(5, 1), Q(10, 1)} : OnSlider(depth_slider_props, v)}
WidthInputs ==
    {v \in {Q(10, 1), Q(20, 1)} : OnSlider(width_slider_props, v)}
KInputs ==
    {v \in {Q(1, 100000), Q(1, 10000)} : OnSlider(k_slider_props, v)}
HeadLeftInputs ==
    {v \in {Q(5, 1), Q(8, 1)} : OnSlider(head_left_slider_props, v)}
HeadRightInputs ==
    {v \in {Q(5, 1), Q(10, 1)} : OnSlider(head_right_slider_props, v)}
ExcavationRightInputs ==
    {v \in {Q(5, 1), Q(10, 1)} :
        OnSlider(excavation_depth_right_slider_props, v)}
ExcavationLeftInputs ==
    {v \in {Q(0, 1), Q(5, 1)} :
        OnSlider(excavation_depth_left_slider_props, v)}

\* Number of samples per axis of the mesh grid.  The code takes 100; the
\* model takes fewer, at the same evenly spaced positions rule.
Samples == 3

\* Number of flow lines.
NumFlowLines == 5

(* ------------------------------------------------------------------ *)
(* The callback                                                        *)
(* ------------------------------------------------------------------ *)

\* Variant of linspace: the samples of np.linspace(..., endpoint=False).
linspace_open(start, stop, num) ==
    LET step == RDiv(RSub(stop, start), Q(num, 1))
    IN  [i \in 1..num |-> RAdd(RMul(Q(i - 1, 1), step), start)]

\* np.linspace(start, stop, num) with num > 1: num evenly spaced samples,
\* the last one set to stop itself.
linspace(start, stop, num) ==
    LET step == RDiv(RSub(stop, start), Q(num - 1, 1))
    IN  [i \in 1..num |->
            IF i = num THEN stop
            ELSE RAdd(RMul(Q(i - 1, 1), step), start)]

\* np.meshgrid(x, y): X[j][i] = x[i], Y[j][i] = y[j].
meshgrid_X(x, y) == [j \in DOMAIN y |-> [i \in DOMAIN x |-> x[i]]]
meshgrid_Y(x, y) == [j \in DOMAIN y |-> [i \in DOMAIN x |-> y[j]]]

\* Variant of hydraulic_head: the gradient added instead of subtracted.
hydraulic_head_sign(X, Y, W, head_left, head_right) ==
    RAdd(head_left, RDiv(RMul(RSub(head_left, head_right), X), W))

\* Variant of hydraulic_head: (head_left - (head_left - head_right)) * X / W.
hydraulic_head_precedence(X, Y, W, head_left, head_right) ==
    RDiv(RMul(RSub(head_left, RSub(head_left, head_right)), X), W)

\* Variant of hydraulic_head: the elevation Y subtracted from the head.
hydraulic_head_elevation(X, Y, W, head_left, head_right) ==
    RSub(RSub(head_left, RDiv(RMul(RSub(head_left, head_right), X), W)), Y)

\* Linear gradient of head between the two sides; Y is not used.
hydraulic_head(X, Y, W, head_left, head_right) ==
    RSub(head_left, RDiv(RMul(RSub(head_left, head_right), X), W))

\* hydraulic_head applied elementwise to the mesh (numpy broadcasting).
head_field(X, Y, W, head_left, head_right) ==
    [j \in DOMAIN X |->
        [i \in DOMAIN X[j] |->
            hydraulic_head(X[j][i], Y[j][i], W, head_left, head_right)]]

\* Variant of go_Figure: the figure of the previous call, used again.
stale_Figure == seepage_graph

\* go.Figure(): a figure with no traces, shapes or annotations.
go_Figure ==
    [data |-> <<>>,
     layout |-> [shapes |-> <<>>, annotations |-> <<>>]]

\* Variant of add_shape: the shape put at the front of the list.
add_shape_front(fig, shape) ==
    [fig EXCEPT !.layout.shapes = <<shape>> \o @]

add_shape(fig, shape) ==
    [fig EXCEPT !.layout.shapes = Append(@, shape)]

add_trace(fig, trace) ==
    [fig EXCEPT !.data = Append(@, trace)]

add_annotation(fig, ann) ==
    [fig EXCEPT !.layout.annotations = Append(@, ann)]

RECURSIVE add_shapes(_, _)
add_shapes(fig, shapes) ==
    IF shapes = <<>> THEN fig
    ELSE add_shapes(add_shape(fig, Head(shapes)), Tail(shapes))

\* Variant of excavation_right: the depth clamped to H.
excavation_right_clamped(H, W, excavation_depth_right) ==
    [type |-> "rect", x0 |-> RDiv(W, Q(2, 1)), x1 |-> W,
     y0 |-> H,
     y1 |-> IF RLe(excavation_depth_right, H)
            THEN RSub(H, excavation_depth_right) ELSE Zero,
     line |-> [color |-> "Black", width |-> Q(2, 1)],
     fillcolor |-> "white", layer |-> "below"]

excavation_right(H, W, excavation_depth_right) ==
    [type |-> "rect", x0 |-> RDiv(W, Q(2, 1)), x1 |-> W,
     y0 |-> H, y1 |-> RSub(H, excavation_depth_right),
     line |-> [color |-> "Black", width |-> Q(2, 1)],
     fillcolor |-> "white", layer |-> "below"]

excavation_left(H, W, excavation_depth_left) ==
    [type |-> "rect", x0 |-> Zero, x1 |-> RDiv(W, Q(2, 1)),
     y0 |-> H, y1 |-> RSub(H, excavation_depth_left),
     line |-> [color |-> "Black", width |-> Q(2, 1)],
     fillcolor |-> "white", layer |-> "below"]

\* Variant of sheetpile: y1 = H - (d + 0.1 * H - d).
sheetpile_precedence(H, W, excavation_depth_right) ==
    [type |-> "rect",
     x0 |-> RSub(RDiv(W, Q(2, 1)), Q(1, 2)), x1 |-> RDiv(W, Q(2, 1)),
     y0 |-> H,
     y1 |-> RSub(H, RSub(RAdd(excavation_depth_right, RMul(Q(1, 10), H)),
                         excavation_depth_right)),
     line |-> [color |-> "gray", width |-> Q(1, 1)],
     fillcolor |-> "gray"]

sheetpile(H, W, excavation_depth_right) ==
    [type |-> "rect",
     x0 |-> RSub(RDiv(W, Q(2, 1)), Q(1, 2)), x1 |-> RDiv(W, Q(2, 1)),
     y0 |-> H,
     y1 |-> RSub(H, RAdd(excavation_depth_right,
                         RMul(Q(1, 10), RSub(H, excavation_depth_right)))),
     line |-> [color |-> "gray", width |-> Q(1, 1)],
     fillcolor |-> "gray"]

contour(head, x, y) ==
    [type |-> "contour", z |-> head, x |-> x, y |-> y,
     contours |-> [coloring |-> "lines"], showscale |-> FALSE,
     line |-> [color |-> "blue", width |-> Q(1, 1)]]

\* Variant of flow_lines_x: one flow line fewer.
flow_lines_x_short(W) == linspace(Zero, W, NumFlowLines - 1)

flow_lines_x(W) == linspace(Zero, W, NumFlowLines)

flow_line(x_coord, H) ==
    [type |-> "line", x0 |-> x_coord, x1 |-> x_coord, y0 |-> Zero, y1 |-> H,
     line |-> [color |-> "orange", width |-> Q(3, 2)]]

flow_lines(H, W) ==
    LET xs == flow_lines_x(W)
    IN  [k \in DOMAIN xs |-> flow_line(xs[k], H)]

\* Variant of update_layout: the y-axis reversed, range [H, 0].
update_layout_reversed(fig, H, W) ==
    [fig EXCEPT !.layout =
        [shapes |-> @.shapes, annotations |-> @.annotations,
         title |-> "Seepage Flow Around a Deep Excavation with Flow Net",
         xaxis |-> [title |-> "Width (m)", range |-> <<Zero, W>>],
         yaxis |-> [title |-> "Depth (m)", range |-> <<H, Zero>>],
         height |-> 600, width |-> 900]]

update_layout(fig, H, W) ==
    [fig EXCEPT !.layout =
        [shapes |-> @.shapes, annotations |-> @.annotations,
         title |-> "Seepage Flow Around a Deep Excavation with Flow Net",
         xaxis |-> [title |-> "Width (m)", range |-> <<Zero, W>>],
         yaxis |-> [title |-> "Depth (m)", range |-> <<Zero, H>>],
         height |-> 600, width |-> 900]]

water_level_left(W, head_left) ==
    [type |-> "line", x0 |-> Zero, x1 |-> RDiv(W, Q(2, 1)),
     y0 |-> head_left, y1 |-> head_left,
     line |-> [color |-> "blue", width |-> Q(2, 1)], layer |-> "above"]

\* The text is the f-string's pieces: prefix, the number, suffix.
water_label_left(W, head_left) ==
    [x |-> RDiv(W, Q(4, 1)), y |-> head_left,
     text |-> <<"Water Level (Left): ", head_left, " m">>,
     showarrow |-> FALSE, font |-> [color |-> "blue"]]

water_level_right(W, head_right) ==
    [type |-> "line", x0 |-> RDiv(W, Q(2, 1)), x1 |-> W,
     y0 |-> head_right, y1 |-> head_right,
     line |-> [color |-> "blue", width |-> Q(2, 1)], layer |-> "above"]

water_label_right(W, head_right) ==
    [x |-> RDiv(RMul(Q(3, 1), W), Q(4, 1)), y |-> head_right,
     text |-> <<"Water Level (Right): ", head_right, " m">>,
     showarrow |-> FALSE, font |-> [color |-> "blue"]]

update_figure(H, W, K, head_left, head_right, excavation_depth_right, excavation_depth_left) ==
    LET x == linspace(Zero, W, Samples)
        y == linspace(Zero, H, Samples)
        X == meshgrid_X(x, y)
        Y == meshgrid_Y(x, y)
        head == head_field(X, Y, W, head_left, head_right)
        fig0 == go_Figure
        fig1 == add_shape(fig0, excavation_right(H, W, excavation_depth_right))
        fig2 == add_shape(fig1, excavation_left(H, W, excavation_depth_left))
        fig3 == add_shape(fig2, sheetpile(H, W, excavation_depth_right))
        fig4 == add_trace(fig3, contour(head, x, y))
        fig5 == add_shapes(fig4, flow_lines(H, W))
        fig6 == update_layout(fig5, H, W)
        fig7 == add_shape(fig6, water_level_left(W, head_left))
        fig8 == add_annotation(fig7, water_label_left(W, head_left))
        fig9 == add_shape(fig8, water_level_right(W, head_right))
    IN  add_annotation(fig9, water_label_right(W, head_right))

(* ------------------------------------------------------------------ *)
(* The page: slider values, the graph's figure                         *)
(* ------------------------------------------------------------------ *)

\* dcc.Graph(id='seepage-graph') before any callback: a figure with nothing.
NoFigure == [data |-> <<>>, layout |-> [shapes |-> <<>>, annotations |-> <<>>]]

\* History variable.  At one render the observer keeps the slider values and
\* the figure just rendered; "later" says that a render has happened since.
NoRender == [params |-> <<>>, figure |-> NoFigure, later |-> FALSE]

Remember(p) ==
    earlier' \in
        IF earlier = NoRender
        THEN {NoRender,
              [params |-> p, figure |-> seepage_graph', later |-> FALSE]}
        ELSE {[earlier EXCEPT !.later = TRUE]}

\* The callback fired with the slider values p: the graph gets its result.
Callback(p) ==
    /\ seepage_graph' = update_figure(p[1], p[2], p[3], p[4], p[5], p[6], p[7])
    /\ depth_slider' = p[1]
    /\ width_slider' = p[2]
    /\ k_slider' = p[3]
    /\ head_left_slider' = p[4]
    /\ head_right_slider' = p[5]
    /\ excavation_depth_right_slider' = p[6]
    /\ excavation_depth_left_slider' = p[7]
    /\ Remember(p)

Defaults ==
    <<depth_slider_props.value, width_slider_props.value,
      k_slider_props.value, head_left_slider_props.value,
      head_right_slider_props.value,
      excavation_depth_right_slider_props.value,
      excavation_depth_left_slider_props.value>>

\* The page as served: every slider at its default, the graph still empty.
Init ==
    /\ depth_slider = Defaults[1]
    /\ width_slider = Defaults[2]
    /\ k_slider = Defaults[3]
    /\ head_left_slider = Defaults[4]
    /\ head_right_slider = Defaults[5]
    /\ excavation_depth_right_slider = Defaults[6]
    /\ excavation_depth_left_slider = Defaults[7]
    /\ seepage_graph = NoFigure
    /\ earlier = NoRender

\* Dash fires the callback once when the page has loaded.
InitialCall ==
    /\ seepage_graph = NoFigure
    /\ Callback(sliders)

\* The user reloads the page: the sliders are back at their defaults and the
\* callback fires again.
Reload ==
    /\ seepage_graph # NoFigure
    /\ Callback(Defaults)

\* The slider values after the user has moved slider number s to v.
Moved(s, v) == [sliders EXCEPT ![s] = v]

\* The user moves 'depth-slider' to another position: the callback fires.
SetDepth ==
    \E v \in DepthInputs :
        /\ seepage_graph # NoFigure
        /\ depth_slider # v
        /\ Callback(Moved(1, v))

\* The user moves 'width-slider' to another position: the callback fires.
SetWidth ==
    \E v \in WidthInputs :
        /\ seepage_graph # NoFigure
        /\ width_slider # v
        /\ Callback(Moved(2, v))

\* The user moves 'k-slider' to another position: the callback fires.
SetK ==
    \E v \in KInputs :
        /\ seepage_graph # NoFigure
        /\ k_slider # v
        /\ Callback(Moved(3, v))

\* The user moves 'head-left-slider' to another position: the callback fires.
SetHeadLeft ==
    \E v \in HeadLeftInputs :
        /\ seepage_graph # NoFigure
        /\ head_left_slider # v
        /\ Callback(Moved(4, v))

\* The user moves 'head-right-slider' to another position: the callback fires.
SetHeadRight ==
    \E v \in HeadRightInputs :
        /\ seepage_graph # NoFigure
        /\ head_right_slider # v
        /\ Callback(Moved(5, v))

\* The user moves 'excavation-depth-right-slider' to another position: the callback fires.
SetExcavationRight ==
    \E v \in ExcavationRightInputs :
        /\ seepage_graph # NoFigure
        /\ excavation_depth_right_slider # v
        /\ Callback(Moved(6, v))

\* The user moves 'excavation-depth-left-slider' to another position: the callback fires.
SetExcavationLeft ==
    \E v \in ExcavationLeftInputs :
        /\ seepage_graph # NoFigure
        /\ excavation_depth_left_slider # v
        /\ Callback(Moved(7, v))

Next ==
    \/ InitialCall
    \/ Reload
    \/ SetDepth
    \/ SetWidth
    \/ SetK
    \/ SetHeadLeft
    \/ SetHeadRight
    \/ SetExcavationRight
    \/ SetExcavationLeft

Spec == Init /\ [][Next]_vars

(* ------------------------------------------------------------------ *)
(* Properties                                                          *)
(* ------------------------------------------------------------------ *)

Rendered == seepage_graph # NoFigure
Shapes == seepage_graph.layout.shapes
Annotations == seepage_graph.layout.annotations
Field == seepage_graph.data[1].z
GridX == seepage_graph.data[1].x

\* A render was kept, and at least one other render has happened since.
Kept == earlier # NoRender /\ earlier.later

HasLayer(shape, layer) == "layer" \in DOMAIN shape /\ shape.layer = layer
IsRect(shape) == shape.type = "rect"
IsVertical(shape) == shape.type = "line" /\ shape.x0 = shape.x1
IsHorizontal(shape) == shape.type = "line" /\ shape.y0 = shape.y1

\* C1: hydraulic_head at X = 0 is exactly head_left and at X = W exactly
\* head_right, so the first column of the rendered head field equals
\* head_left and the last column equals head_right; with H = 10, W = 20,
\* head_left = 8, head_right = 5 the head at x = 0, 10, 20 is 8, 6.5, 5.
C1_BoundaryHeads ==
    /\ \A W \in WidthInputs, hl \in HeadLeftInputs, hr \in HeadRightInputs :
          /\ hydraulic_head(Zero, Zero, W, hl, hr) = hl
          /\ hydraulic_head(W, Zero, W, hl, hr) = hr
    /\ hydraulic_head(Q(0, 1), Zero, Q(20, 1), Q(8, 1), Q(5, 1)) = Q(8, 1)
    /\ hydraulic_head(Q(10, 1), Zero, Q(20, 1), Q(8, 1), Q(5, 1)) = Q(13, 2)
    /\ hydraulic_head(Q(20, 1), Zero, Q(20, 1), Q(8, 1), Q(5, 1)) = Q(5, 1)
    /\ Rendered =>
          \A j \in DOMAIN Field :
              /\ Field[j][1] = head_left_slider
              /\ Field[j][Len(Field[j])] = head_right_slider

C1_Witness ==
    /\ Rendered
    /\ head_left_slider # head_right_slider
    /\ width_slider # width_slider_props.value
    /\ Field[1][1] = head_left_slider
    /\ Field[1][Samples] = head_right_slider

\* C2: over the samples x1 <= x2 of [0, W] the head is monotonic in x
\* (non-increasing when head_left >= head_right, non-decreasing when
\* head_left <= head_right) and every value lies between the smaller and
\* the larger of head_left and head_right.
C2_Monotonic ==
    Rendered =>
        LET lo == IF RLe(head_left_slider, head_right_slider)
                  THEN head_left_slider ELSE head_right_slider
            hi == IF RLe(head_left_slider, head_right_slider)
                  THEN head_right_slider ELSE head_left_slider
        IN  \A j \in DOMAIN Field :
                /\ \A i \in DOMAIN Field[j] :
                      /\ RLe(Zero, GridX[i]) /\ RLe(GridX[i], width_slider)
                      /\ RLe(lo, Field[j][i]) /\ RLe(Field[j][i], hi)
                /\ \A i1, i2 \in DOMAIN Field[j] :
                      RLe(GridX[i1], GridX[i2]) =>
                          /\ RLe(head_right_slider, head_left_slider)
                                => RLe(Field[j][i2], Field[j][i1])
                          /\ RLe(head_left_slider, head_right_slider)
                                => RLe(Field[j][i1], Field[j][i2])

C2_Witness ==
    /\ Rendered
    /\ RLt(head_left_slider, head_right_slider)
    /\ RLt(GridX[1], GridX[2])
    /\ RLt(Field[1][1], Field[1][2])
    /\ RLt(Field[1][2], head_right_slider)
    /\ Kept
    /\ RLt(earlier.params[5], earlier.params[4])
    /\ RLt(earlier.figure.data[1].z[1][2], earlier.figure.data[1].z[1][1])
    /\ RLt(earlier.params[5], earlier.figure.data[1].z[1][2])

\* C3: the head field depends only on the x samples, W, head_left and
\* head_right: a render and an earlier render that agree on W, head_left
\* and head_right have the same head value at every grid index, whatever
\* K, H and the excavation depths are, and within one render every row of
\* the field is the same.
C3_FieldIndependence ==
    Rendered =>
        /\ \A j \in DOMAIN Field : Field[j] = Field[1]
        /\ ( /\ Kept
             /\ earlier.params[2] = width_slider
             /\ earlier.params[4] = head_left_slider
             /\ earlier.params[5] = head_right_slider )
           => earlier.figure.data[1].z = Field

C3_Witness ==
    /\ Rendered
    /\ Kept
    /\ earlier.params[2] = width_slider
    /\ earlier.params[4] = head_left_slider
    /\ earlier.params[5] = head_right_slider
    /\ earlier.params[1] # depth_slider
    /\ earlier.params[3] # k_slider
    /\ earlier.params[6] # excavation_depth_right_slider
    /\ earlier.params[7] # excavation_depth_left_slider
    /\ head_left_slider # head_right_slider
    /\ earlier.figure.data[1].z = Field

\* C4: every rendered figure holds exactly 3 rectangles, exactly 5 vertical
\* line segments, exactly 2 horizontal water-level lines, each with one text
\* annotation at its level, and exactly 1 contour trace.
C4_ShapeCounts ==
    Rendered =>
        /\ Cardinality({k \in DOMAIN Shapes : IsRect(Shapes[k])}) = 3
        /\ Cardinality({k \in DOMAIN Shapes : IsVertical(Shapes[k])}) = 5
        /\ Cardinality({k \in DOMAIN Shapes : IsHorizontal(Shapes[k])}) = 2
        /\ Len(Shapes) = 10
        /\ Len(Annotations) = 2
        /\ \A a \in DOMAIN Annotations :
              Cardinality({k \in DOMAIN Shapes :
                  /\ IsHorizontal(Shapes[k])
                  /\ Shapes[k].y0 = Annotations[a].y
                  /\ RLe(Shapes[k].x0, Annotations[a].x)
                  /\ RLe(Annotations[a].x, Shapes[k].x1)}) = 1
        /\ Len(seepage_graph.data) = 1
        /\ seepage_graph.data[1].type = "contour"

C4_Witness ==
    /\ Rendered
    /\ sliders # Defaults
    /\ excavation_depth_right_slider = Q(10, 1)
    /\ depth_slider = Q(5, 1)
    /\ Kept
    /\ Len(Shapes) = 10
    /\ Len(Annotations) = 2

C7_DrawOrder ==
    Rendered =>
        /\ Len(Shapes) = 10
        /\ \A k \in 1..2 : IsRect(Shapes[k]) /\ HasLayer(Shapes[k], "below")
        /\ Shapes[1].x1 = width_slider
        /\ Shapes[2].x0 = Zero
        /\ IsRect(Shapes[3]) /\ Shapes[3].fillcolor = "gray"
        /\ \A k \in 4..8 : IsVertical(Shapes[k])
        /\ \A k \in 3..10 : ~HasLayer(Shapes[k], "below")
        /\ \A k \in 9..10 :
              IsHorizontal(Shapes[k]) /\ HasLayer(Shapes[k], "above")

C7_Witness ==
    /\ Rendered
    /\ Kept
    /\ HasLayer(Shapes[1], "below")
    /\ HasLayer(Shapes[2], "below")
    /\ HasLayer(Shapes[10], "above")
    /\ IsVertical(Shapes[4])

\* C8 as stated: no excavation depth is validated against H, a figure is
\* always returned, and a rectangle whose excavation depth exceeds H is
\* inverted: its y1 is greater than its y0.
C8_Inverted ==
    Rendered =>
        /\ Len(Shapes) = 10
        /\ RLt(depth_slider, excavation_depth_right_slider)
              => RLt(Shapes[1].y0, Shapes[1].y1)
        /\ RLt(depth_slider, excavation_depth_left_slider)
              => RLt(Shapes[2].y0, Shapes[2].y1)

\* C8 as amended: no excavation depth is validated against H and a figure
\* is always returned; each excavation rectangle has y0 = H and
\* y1 = H - depth unclamped, so y1 <= y0 always, and a rectangle whose depth
\* exceeds H is not inverted: its y1 is negative, below the plotted range.
C8_BelowRange ==
    /\ \A H \in DepthInputs, W \in WidthInputs, d \in ExcavationRightInputs :
          RLt(H, d) =>
              /\ RLt(excavation_left(H, W, d).y1, Zero)
              /\ RLt(excavation_right(H, W, d).y1, Zero)
    /\ Rendered =>
          /\ Len(Shapes) = 10
          /\ \A k \in 1..2 : IsRect(Shapes[k]) /\ Shapes[k].y0 = depth_slider
          /\ RAdd(Shapes[1].y1, excavation_depth_right_slider) = depth_slider
          /\ RAdd(Shapes[2].y1, excavation_depth_left_slider) = depth_slider
          /\ \A k \in 1..2 : RLe(Shapes[k].y1, Shapes[k].y0)
          /\ RLt(depth_slider, excavation_depth_right_slider)
                => RLt(Shapes[1].y1, Zero)

C8_Witness ==
    /\ Rendered
    /\ depth_slider = Q(5, 1)
    /\ excavation_depth_right_slider = Q(10, 1)
    /\ Shapes[1].y0 = Q(5, 1)
    /\ Shapes[1].y1 = Q(-5, 1)

\* C9: the 5 flow lines are vertical markers at x = 0, W/4, W/2, 3W/4 and W,
\* each spanning y from 0 to H; a render and an earlier render that agree on
\* W and H have the same flow lines, whatever the other sliders are.
C9_FlowLines ==
    Rendered =>
        /\ Len(Shapes) = 10
        /\ \A k \in 0..4 :
              /\ IsVertical(Shapes[4 + k])
              /\ Shapes[4 + k].x0 = RDiv(RMul(Q(k, 1), width_slider), Q(4, 1))
              /\ Shapes[4 + k].y0 = Zero
              /\ Shapes[4 + k].y1 = depth_slider
        /\ ( /\ Kept
             /\ earlier.params[1] = depth_slider
             /\ earlier.params[2] = width_slider )
           => \A k \in 4..8 : earlier.figure.layout.shapes[k] = Shapes[k]

C9_Witness ==
    /\ Rendered
    /\ Kept
    /\ earlier.params[1] = depth_slider
    /\ earlier.params[2] = width_slider
    /\ earlier.params[3] # k_slider
    /\ earlier.params[4] # head_left_slider
    /\ earlier.params[5] # head_right_slider
    /\ earlier.params[6] # excavation_depth_right_slider
    /\ earlier.params[7] # excavation_depth_left_slider
    /\ Shapes[5].x0 = RDiv(width_slider, Q(4, 1))
    /\ Shapes[7].x0 = RDiv(RMul(Q(3, 1), width_slider), Q(4, 1))

\* C10: the sheet pile starts at y0 = H.  When 0 <= excavation_depth_right
\* <= H its tip y1 = H - (d + 0.1 (H - d)) = 0.9 (H - d) satisfies
\* 0 <= y1 <= H - d: it reaches at least as deep as the right excavation
\* floor and stays in the plotted range.  When d > H the tip lies above the
\* right excavation rectangle's y1.
C10_SheetPile ==
    Rendered =>
        LET d == excavation_depth_right_slider
            pile == Shapes[3]
        IN  /\ pile.y0 = depth_slider
            /\ pile.y1 = RMul(Q(9, 10), RSub(depth_slider, d))
            /\ (RLe(Zero, d) /\ RLe(d, depth_slider)) =>
                  /\ RLe(Zero, pile.y1)
                  /\ RLe(pile.y1, RSub(depth_slider, d))
                  /\ RLe(pile.y1, Shapes[1].y1)
            /\ RLt(depth_slider, d) => RLt(Shapes[1].y1, pile.y1)

C10_Witness ==
    /\ Rendered
    /\ RLt(depth_slider, excavation_depth_right_slider)
    /\ RLt(Shapes[1].y1, Shapes[3].y1)
    /\ Kept
    /\ RLt(earlier.params[6], earlier.params[1])
    /\ RLt(Zero, earlier.figure.layout.shapes[3].y1)
    /\ RLt(earlier.figure.layout.shapes[3].y1,
           earlier.figure.layout.shapes[1].y1)

====
